---- MODULE Spec2Model ----
(***************************************************************************)
(* Monkey front end: the lexer (package lexer), the token table (package   *)
(* token) and the parser that pulls tokens from the lexer.                 *)
(*                                                                         *)
(* Bytes are naturals (ASCII codes), strings are sequences of bytes.       *)
(* A lexer value is the record [input, position, readPosition, ch]; the    *)
(* methods of *Lexer are operators from a lexer record to the record after *)
(* the call (and the value returned).                                      *)
(***************************************************************************)
EXTENDS Integers, Sequences, FiniteSets, TLC

VARIABLES
    \* the Lexer struct
    input, position, readPosition, ch,
    \* every token NextToken() has returned on this lexer, in order
    tokens,
    \* the parser: its fields, the Program under construction and the point
    \* reached ("lex": no parser; "new": before New(l); "loop": at the head of
    \* the loop of ParseProgram; "done": ParseProgram has returned)
    pc, curToken, peekToken, errors, statements,
    \* the expectPeek calls made so far, each with the parser before and after
    expectLog,
    \* iterations of the loop of ParseProgram completed so far
    iterations,
    \* the fragments the input was assembled from
    source

parvars == <<pc, curToken, peekToken, errors, statements, expectLog, iterations>>
vars == <<input, position, readPosition, ch, tokens,
          pc, curToken, peekToken, errors, statements,
          expectLog, iterations, source>>

----------------------------------------------------------------------------
(* Bounds *)

\* longest input drawn character by character
MaxLen == 4
\* NextToken() calls a client makes beyond one per input character
ExtraCalls == 3
\* statement fragments concatenated into one parser input
MaxChunks == 3
\* words concatenated into one input of the identifier scans
MaxWords == 3
\* longest input of the number scans
MaxNumberLen == 5

----------------------------------------------------------------------------
(* package token *)

ILLEGAL == "ILLEGAL"
EOF == "EOF"
IDENT == "IDENT"
INT == "INT"
ASSIGN == "="
PLUS == "+"
MINUS == "-"
BANG == "!"
ASTERISK == "*"
SLASH == "/"
LT == "<"
GT == ">"
EQ == "=="
NOT_EQ == "!="
COMMA == ","
SEMICOLON == ";"
LPAREN == "("
RPAREN == ")"
LBRACE == "{"
RBRACE == "}"
FUNCTION == "FUNCTION"
LET_ == "LET"
\* the kind the statement dispatch and the parser tests name for `return`;
\* the keyword table below has no entry that yields it
RETURN == "RETURN"

Token(type, literal) == [Type |-> type, Literal |-> literal]

\* "fn"
KwFn == <<102, 110>>
\* "let"
KwLet == <<108, 101, 116>>
\* "return"
WordReturn == <<114, 101, 116, 117, 114, 110>>

\* var keywords = map[string]TokenType{"fn": FUNCTION, "let": LET}
keywords == (KwFn :> FUNCTION) @@ (KwLet :> LET_)

LookupIdentNoLet(ident) ==
    IF ident = KwFn THEN FUNCTION ELSE IDENT

LookupIdent(ident) ==
    IF ident \in DOMAIN keywords THEN keywords[ident] ELSE IDENT

----------------------------------------------------------------------------
(* package lexer *)

Lexer(in, pos, rpos, c) ==
    [input |-> in, position |-> pos, readPosition |-> rpos, ch |-> c]

\* Go indexes strings from 0
ByteAt(s, i) == s[i + 1]

\* s[from:to]
Slice(s, from, to) == SubSeq(s, from + 1, to)

\* In the operators below a call's argument is evaluated once, before the
\* body: the body is written over a variable bound to the argument's value,
\* as  CHOOSE r \in {body(l) : l \in {argument}} : TRUE.

\* a readChar that leaves readPosition alone once the input is exhausted
readCharStopAtEnd(l0) ==
    CHOOSE r \in
        {[l EXCEPT !.ch = IF l.readPosition >= Len(l.input)
                            THEN 0
                            ELSE ByteAt(l.input, l.readPosition),
                   !.position = l.readPosition,
                   !.readPosition = IF l.readPosition >= Len(l.input)
                                      THEN l.readPosition
                                      ELSE l.readPosition + 1] :
            l \in {l0}} : TRUE

\* l.readChar(): load the byte at readPosition (0 past the end) and move both
\* cursors
readChar(l0) ==
    CHOOSE r \in
        {[l EXCEPT !.ch = IF l.readPosition >= Len(l.input)
                            THEN 0
                            ELSE ByteAt(l.input, l.readPosition),
                   !.position = l.readPosition,
                   !.readPosition = l.readPosition + 1] : l \in {l0}} : TRUE

\* a constructor that advances twice, as the comment above New words it
NewTwoAdvances(in) == readChar(readChar(Lexer(in, 0, 0, 0)))

\* l := &Lexer{input: input}; l.readChar()
New(in) == readChar(Lexer(in, 0, 0, 0))

peekCharCurrent(l0) == l0.ch

peekChar(l0) ==
    CHOOSE r \in
        {IF l.readPosition >= Len(l.input)
         THEN 0
         ELSE ByteAt(l.input, l.readPosition) : l \in {l0}} : TRUE

isLetter(c) ==
    \/ (97 <= c /\ c <= 122)
    \/ (65 <= c /\ c <= 90)
    \/ c = 95

isDigit(c) == 48 <= c /\ c <= 57

isWhitespace(c) == c = 32 \/ c = 9 \/ c = 13 \/ c = 10

RECURSIVE skipWhitespace(_)
skipWhitespace(l0) ==
    CHOOSE r \in
        {IF isWhitespace(l.ch) THEN skipWhitespace(readChar(l)) ELSE l
            : l \in {l0}} : TRUE

RECURSIVE skipLetters(_)
skipLetters(l0) ==
    CHOOSE r \in
        {IF isLetter(l.ch) THEN skipLetters(readChar(l)) ELSE l
            : l \in {l0}} : TRUE

RECURSIVE skipDigits(_)
skipDigits(l0) ==
    CHOOSE r \in
        {IF isDigit(l.ch) THEN skipDigits(readChar(l)) ELSE l
            : l \in {l0}} : TRUE

\* a readIdentifier with an `if` in place of the `for`
readIdentifierOneLetter(l0) ==
    CHOOSE r \in
        {[lit |-> Slice(l.input, l.position, l2.position), l |-> l2]
            : <<l, l2>> \in
                {<<l0, IF isLetter(l0.ch) THEN readChar(l0) ELSE l0>>}} : TRUE

\* the value returned and the lexer after the call
readIdentifier(l0) ==
    CHOOSE r \in
        {[lit |-> Slice(l.input, l.position, l2.position), l |-> l2]
            : <<l, l2>> \in {<<l0, skipLetters(l0)>>}} : TRUE

\* a readNumber that stops at the '.'
readFractionNoDot(l0) == l0

\* readNumber after the first run of digits: the optional '.' and digits
readFraction(l0) ==
    CHOOSE r \in
        {IF l2.ch = 46 THEN skipDigits(readChar(l2)) ELSE l2 : l2 \in {l0}} : TRUE

readNumberOneDigit(l0) ==
    CHOOSE r \in
        {[lit |-> Slice(l.input, l.position, l3.position), l |-> l3]
            : <<l, l3>> \in
                {<<l0, readFraction(IF isDigit(l0.ch) THEN readChar(l0) ELSE l0)>>}}
        : TRUE

readNumber(l0) ==
    CHOOSE r \in
        {[lit |-> Slice(l.input, l.position, l3.position), l |-> l3]
            : <<l, l3>> \in {<<l0, readFraction(skipDigits(l0))>>}} : TRUE

newToken(tokenType, c) == Token(tokenType, <<c>>)

\* the kind of the one-character cases of the switch in NextToken
SingleCharType(c) ==
    CASE c = 43 -> PLUS
      [] c = 45 -> MINUS
      [] c = 47 -> SLASH
      [] c = 42 -> ASTERISK
      [] c = 60 -> LT
      [] c = 62 -> GT
      [] c = 59 -> SEMICOLON
      [] c = 40 -> LPAREN
      [] c = 41 -> RPAREN
      [] c = 44 -> COMMA
      [] c = 123 -> LBRACE
      [] c = 125 -> RBRACE
      [] OTHER -> ILLEGAL

ReturnNoAdvance(tok, l) == [tok |-> tok, l |-> l]

\* l.readChar(); return tok    (the end of NextToken)
AdvanceAndReturn(tok, l) == [tok |-> tok, l |-> readChar(l)]

\* the two-character operators: the second character is read and the
\* literal is made of both
TwoCharToken(tokenType, l) ==
    CHOOSE r \in
        {AdvanceAndReturn(Token(tokenType, <<l.ch>> \o <<l2.ch>>), l2)
            : l2 \in {readChar(l)}} : TRUE

\* the identifier branch: the text read, looked up in the keyword table
IdentifierToken(l) ==
    CHOOSE t \in
        {[tok |-> Token(LookupIdent(r.lit), r.lit), l |-> r.l]
            : r \in {readIdentifier(l)}} : TRUE

\* the number branch
NumberToken(l) ==
    CHOOSE t \in
        {[tok |-> Token(INT, r.lit), l |-> r.l] : r \in {readNumber(l)}} : TRUE

\* the switch of NextToken, entered after skipWhitespace
NextTokenSwitch(l) ==
    CASE l.ch = 61 ->
           IF peekChar(l) = 61
           THEN TwoCharToken(EQ, l)
           ELSE AdvanceAndReturn(newToken(ASSIGN, l.ch), l)
      [] l.ch = 33 ->
           IF peekChar(l) = 61
           THEN TwoCharToken(NOT_EQ, l)
           ELSE AdvanceAndReturn(newToken(BANG, l.ch), l)
      [] l.ch = 0 ->
           AdvanceAndReturn(Token(EOF, <<>>), l)
      [] SingleCharType(l.ch) # ILLEGAL ->
           AdvanceAndReturn(newToken(SingleCharType(l.ch), l.ch), l)
      [] OTHER ->
           IF isLetter(l.ch) THEN IdentifierToken(l)
           ELSE IF isDigit(l.ch) THEN NumberToken(l)
           ELSE AdvanceAndReturn(newToken(ILLEGAL, l.ch), l)

\* the token returned and the lexer after the call
NextToken(l0) ==
    CHOOSE r \in {NextTokenSwitch(l) : l \in {skipWhitespace(l0)}} : TRUE

\* the lexer held in the state variables
TheLexer == Lexer(input, position, readPosition, ch)

SetLexer(l) ==
    /\ input' = l.input
    /\ position' = l.position
    /\ readPosition' = l.readPosition
    /\ ch' = l.ch

----------------------------------------------------------------------------
(* package ast *)

NilNode == [kind |-> "nil"]

Identifier(tok) ==
    [kind |-> "Identifier", Token |-> tok, Value |-> tok.Literal]

IntegerLiteral(tok, value) ==
    [kind |-> "IntegerLiteral", Token |-> tok, Value |-> value]

LetStatement(tok, name, value) ==
    [kind |-> "LetStatement", Token |-> tok, Name |-> name, Value |-> value]

ReturnStatement(tok, value) ==
    [kind |-> "ReturnStatement", Token |-> tok, ReturnValue |-> value]

ExpressionStatement(tok, expr) ==
    [kind |-> "ExpressionStatement", Token |-> tok, Expression |-> expr]

TokenLiteral(node) == node.Token.Literal

\* Identifier.String() returns Value, IntegerLiteral.String() the literal of
\* its token
ExpressionString(e) ==
    IF e.kind = "Identifier" THEN e.Value ELSE e.Token.Literal

\* a LetStatement.String() that forgets the closing ";"
LetStatementStringNoSemicolon(ls) ==
    TokenLiteral(ls) \o <<32>> \o ExpressionString(ls.Name) \o <<32, 61, 32>>
        \o (IF ls.Value.kind # "nil" THEN ExpressionString(ls.Value) ELSE <<>>)

\* LetStatement.String(): "let <name> = <value>;", the value left out when nil
LetStatementString(ls) ==
    TokenLiteral(ls) \o <<32>> \o ExpressionString(ls.Name) \o <<32, 61, 32>>
        \o (IF ls.Value.kind # "nil" THEN ExpressionString(ls.Value) ELSE <<>>)
        \o <<59>>

\* ReturnStatement.String(): "return <value>;", the value left out when nil
ReturnStatementString(rs) ==
    TokenLiteral(rs) \o <<32>>
        \o (IF rs.ReturnValue.kind # "nil"
            THEN ExpressionString(rs.ReturnValue) ELSE <<>>)
        \o <<59>>

\* ExpressionStatement.String(): the expression's rendering, "" when nil
ExpressionStatementString(es) ==
    IF es.Expression.kind # "nil"
    THEN ExpressionString(es.Expression) ELSE <<>>

\* s.String() for a statement s, by its dynamic type
StatementString(s) ==
    CASE s.kind = "LetStatement" -> LetStatementString(s)
      [] s.kind = "ReturnStatement" -> ReturnStatementString(s)
      [] OTHER -> ExpressionStatementString(s)

\* Program.String(): every statement's String() written to one buffer
RECURSIVE ProgramString(_)
ProgramString(stmts) ==
    IF stmts = <<>> THEN <<>>
    ELSE StatementString(Head(stmts)) \o ProgramString(Tail(stmts))

\* a Program.TokenLiteral() that looks at the last statement
ProgramTokenLiteralLast(stmts) ==
    IF Len(stmts) > 0 THEN TokenLiteral(stmts[Len(stmts)]) ELSE <<>>

\* Program.TokenLiteral(): the first statement's token literal, "" when the
\* program has no statement
ProgramTokenLiteral(stmts) ==
    IF Len(stmts) > 0 THEN TokenLiteral(stmts[1]) ELSE <<>>

----------------------------------------------------------------------------
(* package parser *)

\* A parser value: the lexer it owns, the two buffered tokens, the
\* diagnostics, and the record of what it pulled and expected.
Parser(l, cur, peek, errs, toks, log) ==
    [l |-> l, curToken |-> cur, peekToken |-> peek, errors |-> errs,
     tokens |-> toks, expectLog |-> log]

NoToken == Token("", <<>>)

\* the fields expectPeek may touch
Snapshot(p) ==
    [l |-> p.l, curToken |-> p.curToken, peekToken |-> p.peekToken,
     errors |-> p.errors]

\* advance(): currentToken = peekToken; peekToken = lexer.NextToken()
nextToken(p0) ==
    CHOOSE q \in
        {[p EXCEPT !.l = r.l,
                   !.curToken = p.peekToken,
                   !.peekToken = r.tok,
                   !.tokens = Append(p.tokens, r.tok)]
            : <<p, r>> \in {<<p0, NextToken(p0.l)>>}} : TRUE

\* "expected next token to be <kind>, got <actual> instead"
peekError(kind, actual) ==
    [msg |-> "expected next token", expected |-> kind, got |-> actual]

\* the diagnostic naming a token kind no prefix operation is registered for
noPrefixParseFnError(kind) ==
    [msg |-> "no prefix parse function", expected |-> "expression", got |-> kind]

\* the diagnostic for an Integer token whose text is not a decimal integer
integerParseError(lit) ==
    [msg |-> "could not parse as integer", expected |-> "integer", got |-> lit]

expectPeekAlwaysAdvance(p0, kind) ==
    CHOOSE r \in
        {IF p.peekToken.Type = kind
         THEN [ok |-> TRUE, p |-> nextToken(p)]
         ELSE [ok |-> FALSE,
               p |-> nextToken([p EXCEPT !.errors =
                         Append(@, peekError(kind, p.peekToken.Type))])]
            : p \in {p0}} : TRUE

expectPeek(p0, kind) ==
    CHOOSE r \in
        {IF p.peekToken.Type = kind
         THEN [ok |-> TRUE, p |-> nextToken(p)]
         ELSE [ok |-> FALSE,
               p |-> [p EXCEPT !.errors =
                         Append(@, peekError(kind, p.peekToken.Type))]]
            : p \in {p0}} : TRUE

\* a call of expectPeek, entered in the record of calls
callExpectPeek(p0, kind) ==
    CHOOSE c \in
        {[ok |-> r.ok,
          p |-> [r.p EXCEPT !.expectLog =
                     Append(p.expectLog,
                            [kind |-> kind, ok |-> r.ok,
                             before |-> Snapshot(p), after |-> Snapshot(r.p),
                             pulledBefore |-> Len(p.tokens),
                             pulledAfter |-> Len(r.p.tokens)])]]
            : <<p, r>> \in {<<p0, expectPeek(p0, kind)>>}} : TRUE

AllDigits(lit) == Len(lit) > 0 /\ \A i \in 1..Len(lit) : isDigit(lit[i])

\* the largest int64, 9223372036854775807, as decimal digits
MaxInt64Digits ==
    <<57, 50, 50, 51, 51, 55, 50, 48, 51, 54, 56, 53, 52, 55, 55, 53, 56, 48, 55>>

RECURSIVE StripLeadingZeros(_)
StripLeadingZeros(lit) ==
    IF Len(lit) > 1 /\ Head(lit) = 48 THEN StripLeadingZeros(Tail(lit)) ELSE lit

\* a <= b for digit strings of the same length
RECURSIVE DigitsLeq(_, _)
DigitsLeq(a, b) ==
    IF a = <<>> THEN TRUE
    ELSE IF Head(a) # Head(b) THEN Head(a) < Head(b)
    ELSE DigitsLeq(Tail(a), Tail(b))

\* the digit string denotes a value an int64 holds
FitsInt64(lit) ==
    LET d == StripLeadingZeros(lit)
    IN  \/ Len(d) < Len(MaxInt64Digits)
        \/ (Len(d) = Len(MaxInt64Digits) /\ DigitsLeq(d, MaxInt64Digits))

\* the number a run of decimal digits denotes
RECURSIVE DecValue(_)
DecValue(lit) ==
    IF lit = <<>> THEN 0
    ELSE 10 * DecValue(SubSeq(lit, 1, Len(lit) - 1)) + (lit[Len(lit)] - 48)

\* prefix operation of Integer: the literal as a 64-bit integer.  Text that
\* is not a run of digits (a fractional literal the lexer let through) or
\* that denotes a number no int64 holds has no IntegerLiteral: a diagnostic
\* and a nil expression.
parseIntegerLiteral(p) ==
    IF AllDigits(p.curToken.Literal) /\ FitsInt64(p.curToken.Literal)
    THEN [expr |-> IntegerLiteral(p.curToken, DecValue(p.curToken.Literal)), p |-> p]
    ELSE [expr |-> NilNode,
          p |-> [p EXCEPT !.errors = Append(@, integerParseError(p.curToken.Literal))]]

\* prefix operation of Identifier
parseIdentifier(p) == [expr |-> Identifier(p.curToken), p |-> p]

\* parseExpression(LOWEST): the prefix operation registered for the current
\* token; no infix operation is registered, every token has the lowest
\* precedence and the infix loop never runs.
parseExpression(p0) ==
    CHOOSE r \in
        {CASE p.curToken.Type = IDENT -> parseIdentifier(p)
           [] p.curToken.Type = INT -> parseIntegerLiteral(p)
           [] OTHER ->
                [expr |-> NilNode,
                 p |-> [p EXCEPT !.errors =
                           Append(@, noPrefixParseFnError(p.curToken.Type))]]
            : p \in {p0}} : TRUE

\* skip forward to the Semicolon that ends the statement, or to the end of
\* the input when there is none
RECURSIVE skipToSemicolon(_)
skipToSemicolon(p0) ==
    CHOOSE r \in
        {IF p.curToken.Type = SEMICOLON \/ p.curToken.Type = EOF
         THEN p
         ELSE skipToSemicolon(nextToken(p)) : p \in {p0}} : TRUE

\* parseLetStatement after `let <identifier> =`: the value and the skip
parseLetValue(tok, name, p0) ==
    CHOOSE r \in
        {[stmt |-> LetStatement(tok, name, e.expr), p |-> skipToSemicolon(e.p)]
            : e \in {parseExpression(nextToken(p0))}} : TRUE

\* parseLetStatement after `let <identifier>`
parseLetAssign(tok, p0) ==
    CHOOSE r \in
        {IF ~r2.ok THEN [stmt |-> NilNode, p |-> r2.p]
         ELSE parseLetValue(tok, Identifier(p.curToken), r2.p)
            : <<p, r2>> \in {<<p0, callExpectPeek(p0, ASSIGN)>>}} : TRUE

parseLetStatement(p0) ==
    CHOOSE r \in
        {IF ~r1.ok THEN [stmt |-> NilNode, p |-> r1.p]
         ELSE parseLetAssign(p.curToken, r1.p)
            : <<p, r1>> \in {<<p0, callExpectPeek(p0, IDENT)>>}} : TRUE

parseReturnStatement(p0) ==
    CHOOSE r \in
        {[stmt |-> ReturnStatement(p.curToken, e.expr), p |-> skipToSemicolon(e.p)]
            : <<p, e>> \in {<<p0, parseExpression(nextToken(p0))>>}} : TRUE

parseExpressionStatement(p0) ==
    CHOOSE r \in
        {[stmt |-> ExpressionStatement(p.curToken, e.expr),
          p |-> IF e.p.peekToken.Type = SEMICOLON THEN nextToken(e.p) ELSE e.p]
            : <<p, e>> \in {<<p0, parseExpression(p0)>>}} : TRUE

parseStatement(p0) ==
    CHOOSE r \in
        {CASE p.curToken.Type = LET_ -> parseLetStatement(p)
           [] p.curToken.Type = RETURN -> parseReturnStatement(p)
           [] OTHER -> parseExpressionStatement(p) : p \in {p0}} : TRUE

\* the parser held in the state variables
TheParser == Parser(TheLexer, curToken, peekToken, errors, tokens, expectLog)

SetParser(p) ==
    /\ SetLexer(p.l)
    /\ curToken' = p.curToken
    /\ peekToken' = p.peekToken
    /\ errors' = p.errors
    /\ tokens' = p.tokens
    /\ expectLog' = p.expectLog

----------------------------------------------------------------------------
(* Inputs *)

\* NUL, space, '!', '.', '1', ';', '=', 'a'
Alphabet == {0, 32, 33, 46, 49, 59, 61, 97}

CharInputs == UNION {[1..n -> Alphabet] : n \in 0..MaxLen}

\* source fragments, named by their text
ChunkText ==
    ("let x = 5;\n" :> KwLet \o <<32, 120, 32, 61, 32, 53, 59, 10>>) @@
    ("let yy = 10; " :> KwLet \o <<32, 121, 121, 32, 61, 32, 49, 48, 59, 32>>) @@
    ("return 5;\n" :> WordReturn \o <<32, 53, 59, 10>>) @@
    ("let x 5;\n" :> KwLet \o <<32, 120, 32, 53, 59, 10>>) @@
    ("let = 5;\n" :> KwLet \o <<32, 61, 32, 53, 59, 10>>) @@
    ("let n = foo;" :>
        KwLet \o <<32, 110, 32, 61, 32, 102, 111, 111, 59>>) @@
    ("foo" :> <<102, 111, 111>>) @@
    ("5" :> <<53>>) @@
    (";" :> <<59>>) @@
    ("let " :> KwLet \o <<32>>) @@
    ("x " :> <<120, 32>>) @@
    ("= " :> <<61, 32>>) @@
    ("NUL" :> <<0>>) @@
    ("9223372036854775808" :>
        <<57, 50, 50, 51, 51, 55, 50, 48, 51, 54, 56, 53, 52, 55, 55, 53, 56, 48, 56>>)

ChunkNames == DOMAIN ChunkText

Sources == UNION {[1..n -> ChunkNames] : n \in 0..MaxChunks}

RECURSIVE Flatten(_)
Flatten(src) ==
    IF src = <<>> THEN <<>> ELSE ChunkText[Head(src)] \o Flatten(Tail(src))

----------------------------------------------------------------------------
(* The lexer driven by a client *)

InitParserIdle ==
    /\ curToken = NoToken
    /\ peekToken = NoToken
    /\ errors = <<>>
    /\ statements = <<>>
    /\ expectLog = <<>>
    /\ iterations = 0

\* lexer.New(input)
Init ==
    /\ \E in \in CharInputs :
          LET l == New(in)
          IN  /\ input = l.input
              /\ position = l.position
              /\ readPosition = l.readPosition
              /\ ch = l.ch
    /\ tokens = <<>>
    /\ source = <<>>
    /\ pc = "lex"
    /\ InitParserIdle

\* l.NextToken()
CallNextToken ==
    /\ pc = "lex"
    /\ Len(tokens) < Len(input) + ExtraCalls
    /\ \E r \in {NextToken(TheLexer)} :
           /\ SetLexer(r.l)
           /\ tokens' = Append(tokens, r.tok)
    /\ UNCHANGED <<parvars, source>>

Next == CallNextToken

Spec == Init /\ [][Next]_vars

\* lexer.New(in) for an input of the given set, no token requested yet
InitOver(inputs) ==
    /\ \E in \in inputs :
          LET l == New(in)
          IN  /\ input = l.input
              /\ position = l.position
              /\ readPosition = l.readPosition
              /\ ch = l.ch
    /\ tokens = <<>>
    /\ pc = "lex"
    /\ source = <<>>
    /\ InitParserIdle

\* the words of the identifier scans: fn let x _ X space 1 ;
Words == {KwFn, KwLet, <<120>>, <<95>>, <<88>>, <<32>>, <<49>>, <<59>>}

RECURSIVE FlattenWords(_)
FlattenWords(ws) ==
    IF ws = <<>> THEN <<>> ELSE Head(ws) \o FlattenWords(Tail(ws))

WordInputs ==
    {FlattenWords(ws) : ws \in UNION {[1..n -> Words] : n \in 0..MaxWords}}

InitWords == InitOver(WordInputs)

\* the lexer driven by a client over inputs made of words
WordSpec == InitWords /\ [][Next]_vars

\* the bytes of the number scans: space . 1 2 3
NumberAlphabet == {32, 46, 49, 50, 51}

NumberInputs == UNION {[1..n -> NumberAlphabet] : n \in 0..MaxNumberLen}

InitNumbers == InitOver(NumberInputs)

\* the lexer driven by a client over inputs made of digits and dots
NumberSpec == InitNumbers /\ [][Next]_vars

----------------------------------------------------------------------------
(* The parser over a lexer *)

\* l := lexer.New(input), not yet handed to a parser
InitParser ==
    /\ \E src \in Sources :
          LET l == New(Flatten(src))
          IN  /\ source = src
              /\ input = l.input
              /\ position = l.position
              /\ readPosition = l.readPosition
              /\ ch = l.ch
    /\ tokens = <<>>
    /\ pc = "new"
    /\ InitParserIdle

\* parser.New(l): pulls two tokens to fill currentToken and peekToken
NewParser ==
    /\ pc = "new"
    /\ \E p \in {nextToken(nextToken(
                   Parser(TheLexer, NoToken, NoToken, <<>>, tokens, <<>>)))} :
           SetParser(p)
    /\ pc' = "loop"
    /\ UNCHANGED <<statements, iterations, source>>

\* one iteration of the loop of ParseProgram: parse a statement, append it
\* when it is not nil, advance
ParseProgramIteration ==
    /\ pc = "loop"
    /\ curToken.Type # EOF
    /\ \E r \in {parseStatement(TheParser)} :
           /\ \E p \in {nextToken(r.p)} : SetParser(p)
           /\ statements' = IF r.stmt.kind # "nil"
                             THEN Append(statements, r.stmt)
                             ELSE statements
    /\ iterations' = iterations + 1
    /\ UNCHANGED <<pc, source>>

\* the loop of ParseProgram ends and the Program is returned
ParseProgramReturn ==
    /\ pc = "loop"
    /\ curToken.Type = EOF
    /\ pc' = "done"
    /\ UNCHANGED <<input, position, readPosition, ch, tokens, curToken,
                   peekToken, errors, statements, expectLog, iterations, source>>

NextParser == NewParser \/ ParseProgramIteration \/ ParseProgramReturn

ParserSpec == InitParser /\ [][NextParser]_vars

----------------------------------------------------------------------------
(* Properties of the lexer *)

TokenKinds ==
    {ILLEGAL, EOF, IDENT, INT, ASSIGN, PLUS, MINUS, BANG, ASTERISK, SLASH,
     LT, GT, EQ, NOT_EQ, COMMA, SEMICOLON, LPAREN, RPAREN, LBRACE, RBRACE,
     FUNCTION, LET_}

EndOfInput == Token(EOF, <<>>)

\* the token the latest call returned
LastToken(toks) == toks[Len(toks)]

\* a call of NextToken() has just returned
Called == Len(tokens') = Len(tokens) + 1

\* index of the first EndOfInput returned, 0 when none was
FirstEOF ==
    IF \E i \in 1..Len(tokens) : tokens[i].Type = EOF
    THEN CHOOSE i \in 1..Len(tokens) :
             /\ tokens[i].Type = EOF
             /\ \A j \in 1..(i - 1) : tokens[j].Type # EOF
    ELSE 0

\* the tokens returned before the first EndOfInput
BeforeEOF ==
    IF FirstEOF = 0 THEN tokens ELSE SubSeq(tokens, 1, FirstEOF - 1)

\* C1: once NextToken() has returned EndOfInput, every later call returns
\* EndOfInput with empty literal.
C1_EndOfInputIsFinal ==
    \A i \in 1..Len(tokens) : \A j \in 1..Len(tokens) :
        (i < j /\ tokens[i].Type = EOF) => tokens[j] = EndOfInput

\* C2: every call returns a token of the closed kind set; a call returning
\* a token other than EndOfInput moves position strictly forward; at most
\* len(input) such tokens precede the first EndOfInput, which is returned
\* within len(input) + 1 calls.
C2_Terminates ==
    /\ [][Called =>
             /\ LastToken(tokens').Type \in TokenKinds
             /\ (LastToken(tokens').Type # EOF => position' > position)]_vars
    /\ [](Len(BeforeEOF) <= Len(input))
    /\ [](Len(tokens) > Len(input) => FirstEOF # 0)

\* as many tokens as characters, then EndOfInput
C2_Witness ==
    /\ Len(input) >= 2
    /\ Len(tokens) = Len(input) + 1
    /\ FirstEOF = Len(tokens)

\* the character after the current one, read from the input itself
FollowingChar ==
    IF position + 1 < Len(input) THEN input[position + 2] ELSE 0

\* C3: at '=' (resp. '!') NextToken() returns Equal (resp. NotEqual) with
\* the two-character literal and consumes two characters iff the following
\* character is '='; otherwise Assign (resp. Bang) with the one-character
\* literal, consuming one character.  "==" and "!=" are one token then
\* EndOfInput; "===" is Equal, Assign, EndOfInput.
C3_TwoCharOperators ==
    /\ [][(Called /\ ch \in {61, 33}) =>
             IF FollowingChar = 61
             THEN /\ LastToken(tokens') =
                        Token(IF ch = 61 THEN EQ ELSE NOT_EQ, <<ch, 61>>)
                  /\ position' = position + 2
             ELSE /\ LastToken(tokens') =
                        Token(IF ch = 61 THEN ASSIGN ELSE BANG, <<ch>>)
                  /\ position' = position + 1]_vars
    /\ []((input = <<61, 61>> /\ Len(tokens) >= 2) =>
              SubSeq(tokens, 1, 2) = <<Token(EQ, <<61, 61>>), EndOfInput>>)
    /\ []((input = <<33, 61>> /\ Len(tokens) >= 2) =>
              SubSeq(tokens, 1, 2) = <<Token(NOT_EQ, <<33, 61>>), EndOfInput>>)
    /\ []((input = <<61, 61, 61>> /\ Len(tokens) >= 3) =>
              SubSeq(tokens, 1, 3) =
                  <<Token(EQ, <<61, 61>>), Token(ASSIGN, <<61>>), EndOfInput>>)

\* "===" has been tokenized
C3_Witness ==
    /\ input = <<61, 61, 61>>
    /\ Len(tokens) = 3
    /\ tokens[1].Type = EQ

RECURSIVE ConcatLiterals(_)
ConcatLiterals(toks) ==
    IF toks = <<>> THEN <<>>
    ELSE Head(toks).Literal \o ConcatLiterals(Tail(toks))

RECURSIVE StripWhitespace(_)
StripWhitespace(s) ==
    IF s = <<>> THEN <<>>
    ELSE IF Head(s) \in {32, 9, 13, 10} THEN StripWhitespace(Tail(s))
    ELSE <<Head(s)>> \o StripWhitespace(Tail(s))

\* C4: the literals of the tokens returned before the first EndOfInput,
\* concatenated in order, are the input with its whitespace removed.
C4_LiteralsCoverInput ==
    FirstEOF # 0 => ConcatLiterals(BeforeEOF) = StripWhitespace(input)

----------------------------------------------------------------------------
(* Properties of the parser *)

\* an iteration of the loop of ParseProgram has just completed
Iterated == iterations' = iterations + 1

WellFormedLets == {"let x = 5;\n", "let yy = 10; "}
MalformedLets == {"let x 5;\n", "let = 5;\n"}

\* the identifier a well-formed let fragment binds
LetName == ("let x = 5;\n" :> <<120>>) @@ ("let yy = 10; " :> <<121, 121>>)

IsPrefix(a, b) == Len(a) <= Len(b) /\ SubSeq(b, 1, Len(a)) = a

\* C6: a source with N malformed statements leaves exactly N diagnostics
\* and a Program holding exactly the well-formed statements, in order.
C6_OneDiagnosticPerMalformed ==
    (/\ pc = "done"
     /\ \A i \in 1..Len(source) : source[i] \in WellFormedLets \cup MalformedLets)
    => LET good == SelectSeq(source, LAMBDA c : c \in WellFormedLets)
           bad == SelectSeq(source, LAMBDA c : c \in MalformedLets)
       IN  /\ Len(errors) = Len(bad)
           /\ Len(statements) = Len(good)
           /\ \A i \in 1..Len(good) :
                  /\ statements[i].kind = "LetStatement"
                  /\ statements[i].Name.Value = LetName[good[i]]

\* C7: expectPeek(kind) with peekToken of that kind advances exactly one
\* token, succeeds and leaves errors alone; otherwise it fails, appends
\* exactly one diagnostic at the end of errors and leaves currentToken,
\* peekToken and the lexer alone.  Diagnostics are never removed or
\* reordered.
C7_ExpectPeek ==
    /\ [](\A i \in 1..Len(expectLog) :
             LET c == expectLog[i]
             IN  IF c.before.peekToken.Type = c.kind
                 THEN /\ c.ok
                      /\ c.after.curToken = c.before.peekToken
                      /\ c.pulledAfter = c.pulledBefore + 1
                      /\ c.after.errors = c.before.errors
                 ELSE /\ ~c.ok
                      /\ Len(c.after.errors) = Len(c.before.errors) + 1
                      /\ IsPrefix(c.before.errors, c.after.errors)
                      /\ c.after.errors[Len(c.after.errors)] =
                             peekError(c.kind, c.before.peekToken.Type)
                      /\ c.after.curToken = c.before.curToken
                      /\ c.after.peekToken = c.before.peekToken
                      /\ c.after.l = c.before.l
                      /\ c.pulledAfter = c.pulledBefore)
    /\ [][IsPrefix(errors, errors')]_vars

\* expectPeek has both succeeded and failed, the failure with a diagnostic
\* already in the list
C7_Witness ==
    /\ \E i \in 1..Len(expectLog) : expectLog[i].ok
    /\ \E i \in 1..Len(expectLog) :
          ~expectLog[i].ok /\ Len(expectLog[i].before.errors) >= 1

C9_ReturnStatements ==
    (/\ pc = "done"
     /\ Len(source) >= 1
     /\ \A i \in 1..Len(source) : source[i] = "return 5;\n")
    => /\ tokens[1].Type = RETURN
       /\ Len(statements) = Len(source)
       /\ errors = <<>>
       /\ \A i \in 1..Len(statements) :
              /\ statements[i].kind = "ReturnStatement"
              /\ TokenLiteral(statements[i]) = WordReturn

\* the source without its one trailing ";"
Body(src) ==
    IF src # <<>> /\ src[Len(src)] = ";" THEN SubSeq(src, 1, Len(src) - 1) ELSE src

\* a single identifier, resp. a single decimal integer
IsIdentifierSource(src) ==
    src # <<>> /\ \A i \in 1..Len(src) : src[i] = "foo"
IsIntegerSource(src) ==
    src # <<>> /\ \A i \in 1..Len(src) : src[i] \in {"5", "9223372036854775808"}

\* the one ExpressionStatement the claim describes for the text
ExpectedExpressionStatement(kind, text) ==
    /\ Len(statements) = 1
    /\ errors = <<>>
    /\ statements[1].kind = "ExpressionStatement"
    /\ TokenLiteral(statements[1]) = text
    /\ statements[1].Expression.kind = kind
    /\ TokenLiteral(statements[1].Expression) = text
    /\ IF kind = "Identifier"
       THEN statements[1].Expression.Value = text
       ELSE FitsInt64(text) => statements[1].Expression.Value = DecValue(text)

\* C10 as stated: a single identifier or a single decimal integer, with or
\* without one trailing ";", parses to one ExpressionStatement holding the
\* Identifier or the IntegerLiteral of that text, with no diagnostic.
C10_SingleExpression ==
    pc = "done" =>
        /\ IsIdentifierSource(Body(source)) =>
               ExpectedExpressionStatement("Identifier", Flatten(Body(source)))
        /\ IsIntegerSource(Body(source)) =>
               ExpectedExpressionStatement("IntegerLiteral", Flatten(Body(source)))

\* C10 amended: the same for an identifier, and for a decimal integer whose
\* value an int64 holds.
C10_SingleExpressionInt64 ==
    pc = "done" =>
        /\ IsIdentifierSource(Body(source)) =>
               ExpectedExpressionStatement("Identifier", Flatten(Body(source)))
        /\ (IsIntegerSource(Body(source)) /\ FitsInt64(Flatten(Body(source)))) =>
               ExpectedExpressionStatement("IntegerLiteral", Flatten(Body(source)))

\* "55;" has been parsed
C10_Witness ==
    /\ pc = "done"
    /\ source = <<"5", "5", ";">>
    /\ Len(statements) = 1
    /\ statements[1].Expression.Value = 55

----------------------------------------------------------------------------
(* Rendering *)

\* the let fragments of the form `let <name> = <expr>;`
RoundTripLets == WellFormedLets \cup {"let n = foo;"}

\* a text without the whitespace that ends it
RECURSIVE TrimRight(_)
TrimRight(s) ==
    IF s # <<>> /\ isWhitespace(s[Len(s)])
    THEN TrimRight(SubSeq(s, 1, Len(s) - 1)) ELSE s

\* the statement a let fragment holds, as written in the source
LetSource(name) == TrimRight(ChunkText[name])

\* the statements of the fragments src[1..n], one after the other
RECURSIVE JoinLets(_, _)
JoinLets(src, n) ==
    IF n = 0 THEN <<>> ELSE JoinLets(src, n - 1) \o LetSource(src[n])

\* the renderings of stmts[1..n], one after the other
RECURSIVE JoinStrings(_, _)
JoinStrings(stmts, n) ==
    IF n = 0 THEN <<>>
    ELSE JoinStrings(stmts, n - 1) \o StatementString(stmts[n])

\* C11: a source of statements `let <name> = <expr>;` (single spaces, the
\* expression an identifier or an integer) that parses with no diagnostic
\* renders each LetStatement back to its source text, and the rendering of
\* the Program is the renderings of its statements in order with nothing
\* in between.
C11_RenderingRoundTrip ==
    /\ (/\ pc = "done"
        /\ errors = <<>>
        /\ \A i \in 1..Len(source) : source[i] \in RoundTripLets)
       => /\ Len(statements) = Len(source)
          /\ \A i \in 1..Len(source) :
                 /\ statements[i].kind = "LetStatement"
                 /\ StatementString(statements[i]) = LetSource(source[i])
          /\ ProgramString(statements) = JoinLets(source, Len(source))
    /\ pc = "done"
       => ProgramString(statements) = JoinStrings(statements, Len(statements))

\* lets with an identifier and with an integer value have been rendered
C11_Witness ==
    /\ pc = "done"
    /\ source = <<"let n = foo;", "let x = 5;\n", "let n = foo;">>
    /\ errors = <<>>
    /\ Len(statements) = 3
    /\ ProgramString(statements) =
           LetSource("let n = foo;") \o LetSource("let x = 5;\n")
               \o LetSource("let n = foo;")

\* C12: the token literal of a Program is empty exactly when the Program
\* has no statement, and otherwise is the literal of the token that began
\* its first statement.
C12_ProgramTokenLiteral ==
    /\ []((ProgramTokenLiteral(statements) = <<>>) <=> (statements = <<>>))
    /\ [][(Iterated /\ statements = <<>> /\ statements' # <<>>)
             => ProgramTokenLiteral(statements') = curToken.Literal]_vars
    /\ [][statements # <<>>
             => ProgramTokenLiteral(statements') =
                    ProgramTokenLiteral(statements)]_vars

\* a Program of two statements that begin with different tokens
C12_Witness ==
    /\ pc = "done"
    /\ Len(statements) = 2
    /\ ProgramTokenLiteral(statements) = KwLet
    /\ TokenLiteral(statements[2]) # KwLet

----------------------------------------------------------------------------
(* The cursor of the lexer *)

\* the lexer before the constructor advanced it: &Lexer{input: input}
ZeroLexer == Lexer(input, 0, 0, 0)

\* the byte of the input at a 0-based index, the sentinel 0 past the end
InputAt(i) == IF i < Len(input) THEN input[i + 1] ELSE 0

C14_CursorInvariant ==
    /\ [](readPosition = position + 1 /\ ch = InputAt(position))
    /\ [][position' >= position /\ input' = input]_vars

\* the cursor has moved past the end of a non-empty input
C14_Witness ==
    /\ Len(tokens) >= 2
    /\ Len(input) >= 1
    /\ position > Len(input)
    /\ ch = 0

----------------------------------------------------------------------------
(* Identifiers and numbers *)

LetterBytes == (97..122) \cup (65..90) \cup {95}
DigitBytes == 48..57
WhitespaceBytes == {32, 9, 10, 13}

\* the 0-based index of the first byte at or after i that is not in S, the
\* length of the input when there is none
RECURSIVE RunEnd(_, _)
RunEnd(S, i) ==
    IF i < Len(input) /\ input[i + 1] \in S THEN RunEnd(S, i + 1) ELSE i

\* where the token of the next NextToken() call starts
TokenStart == RunEnd(WhitespaceBytes, position)

\* the bytes of the input at the 0-based indices from .. to - 1
InputSlice(from, to) == SubSeq(input, from + 1, to)

\* the text "letx"
Letx == KwLet \o <<120>>

OneTwoThree == <<49, 46, 50, 46, 51>>

----------------------------------------------------------------------------
(* The two-token window of the parser *)

\* C17: after construction, which pulls exactly two tokens, and after every
\* advance, currentToken and peekToken are the last two tokens the lexer
\* returned, in that order, so every token passes through peekToken and
\* then currentToken once; and when currentToken is EndOfInput peekToken
\* is EndOfInput too.
C17_LookaheadCoherence ==
    /\ pc = "new" => tokens = <<>>
    /\ pc \in {"loop", "done"}
       => /\ Len(tokens) >= 2
          /\ iterations = 0 => Len(tokens) = 2
          /\ curToken = tokens[Len(tokens) - 1]
          /\ peekToken = tokens[Len(tokens)]
          /\ curToken.Type = EOF => peekToken.Type = EOF
====
